---- MODULE Spec2Model ----
(***************************************************************************)
(* Model of the QCHAT per-question assistant: the LangGraph workflow of    *)
(* backend/app/workflows/qchat_assistant_graph.py, driven either by the    *)
(* FastAPI chat endpoints of backend/app/main.py ("api") or by the         *)
(* interactive loop of backend/test_qchat_chat.py ("script").              *)
(*                                                                         *)
(* One graph.invoke is a run of node steps: pc is the node about to run,   *)
(* "__end__" after the run reached END, "interrupt" after interrupt() in   *)
(* await_user_input suspended it, "error" if the runtime raised.           *)
(***************************************************************************)
EXTENDS Integers, Sequences, FiniteSets, TLC

VARIABLES
    mode,                  \* which driver owns the conversation
    pc,                    \* position of the graph run
    req,                   \* api: the request being served ("none" between requests)
    steps,                 \* node steps of the current graph.invoke
    current_question_number,
    conversation_history,
    current_message,
    bot_response,
    last_intent,
    last_emotion,
    extracted_option,
    extraction_confidence, extraction_reasoning,
    is_answer_complete,
    next_question_number,
    messages,              \* api: session_data["chat_state"]["messages"]
    chat_open,             \* api: session_data["chat_state"] exists
    chat_id,               \* api: chat_state["chat_id"], NoChat when there is no chat
    issued,                \* api: number of chat ids generated so far
    attempt_count,         \* api: chat_state["attempt_count"], read with default 0
    response,              \* api: body of the last HTTP response
    cls_out,               \* this run's classifier answer (raw) and what intent_chain returned
    ext_out,               \* this run's extractor answer (raw) and what the chain returned
    gen_out,               \* what the last generator chain returned in this run
    gen_in,                \* the user_input that generator chain was invoked with
    utterance,             \* the message the driver handed to the current run
    workers,               \* api: the server threads handling message requests at once
    calls,                 \* chain invocations of this run
    answers,               \* api: session_data["answers"], in the order of first submission
    status,                \* api: session_data["status"]
    current_question,      \* api: session_data["current_question"]
    unanswered_questions,  \* api: session_data["unanswered_questions"], [] when the key is missing
    completed_at,          \* api: session_data["completed_at"]
    call                   \* a call of a scoring function: name, arguments, returned value

vars == <<mode, pc, req, steps, current_question_number,
          conversation_history, current_message, bot_response, last_intent,
          last_emotion, extracted_option, extraction_confidence, extraction_reasoning,
          is_answer_complete, next_question_number, messages, chat_open,
          chat_id, issued, attempt_count,
          response, cls_out, ext_out, gen_out, gen_in, utterance, workers, calls,
          answers, status, current_question, unanswered_questions, completed_at, call>>

\* the part of session_data that the questionnaire endpoints keep
sessionVars == <<answers, status, current_question, unanswered_questions, completed_at>>

graphState == <<conversation_history, current_message, bot_response, last_intent,
                last_emotion, extracted_option, extraction_confidence, extraction_reasoning,
                is_answer_complete, next_question_number>>

\* ------------------------------------------------------------------------
\* Bounds and input sets
\* ------------------------------------------------------------------------
\* longest stored conversation: a message is accepted while the stored
\* conversation leaves room for it and its reply
MaxHist == 5

\* chats one session starts
MaxChats == 2

Msgs == {"m1", "m2"}
BlankMsg == " "

\* messages the modelled api client sends
ApiMsgs == {"m1", BlankMsg}
GenTexts == {"g1"}
Confs == {90}
QuestionNumbers == {1, 10}

\* the question the script assists with when none is entered
ScriptQuestion == 1

NONE == "none"
FAIL == "FAIL"
NoConf == -1
NoQuestion == 0
NoChat == 0
END == "__end__"

Options == {"A", "B", "C", "D", "E"}

IntentLiteral ==
    {"answering", "clarification", "asking_question", "question_related_query",
     "greeting", "off_topic", "skip", "restart", "finish", "exit",
     "incomplete_answer", "wrong_format", "refusal", "other"}

EmotionLiteral == {"positive", "negative", "neutral", "confused", "stressed", "hopeful"}

\* emotions the modelled classifier answers with
Emotions == {"confused"}

OptionLiteral == Options \cup {"unclear"}

UserTurn(c) == [role |-> "user", content |-> c]
AssistantTurn(c) == [role |-> "assistant", content |-> c]

\* leaves whitespace in place
Strip_identity(s) == s

\* str.strip() on the modelled utterances: only BlankMsg is all whitespace
Strip(s) == IF s = BlankMsg THEN "" ELSE s

\* datetime.utcnow(), the value stored as completed_at
UtcNow == "utcnow"

\* no scoring call is being shown
NoCall == [fn |-> "none"]

NoCalls == [cls |-> 0, ext |-> 0, gen |-> 0]

\* server threads that handle requests of one session at the same time
Threads == {1, 2}

\* a thread that is handling no request
IdleWorker == [pc |-> "idle", message |-> "", session |-> <<>>, bot |-> ""]
NoCls == [raw |-> NONE, intent |-> NONE, emotion |-> NONE]
NoExt == [raw |-> NONE, option |-> NONE, confidence |-> NoConf]

\* ------------------------------------------------------------------------
\* Chains (backend/app/chains): the LLM answer is the input `raw`; a parse
\* or service failure inside the chain is caught there and replaced by the
\* chain's own fallback.
\* ------------------------------------------------------------------------
\* answers the modelled classifier gives: one intent for every handler and one
\* of the intents without a route of its own
ClassifierIntents ==
    {"answering", "clarification", "asking_question", "greeting", "off_topic", "skip"}

\* options the modelled extractor answers with
ExtractorOptions == {"A", "E"}

RawClassifications ==
    [intent : ClassifierIntents, emotion : Emotions] \cup {[intent |-> FAIL, emotion |-> FAIL]}

RawExtractions ==
    [option : ExtractorOptions, confidence : Confs]
        \cup {[option |-> "unclear", confidence |-> 40], [option |-> FAIL, confidence |-> NoConf]}

\* the reasoning text the extractor gives with its answer
Reasoning == "r1"

RawTexts == GenTexts \cup {"", FAIL}

intent_chain_other(raw) ==
    IF raw.intent \in IntentLiteral /\ raw.emotion \in EmotionLiteral
    THEN [intent |-> raw.intent, emotion |-> raw.emotion]
    ELSE [intent |-> "other", emotion |-> "neutral"]

intent_chain(raw) ==
    IF raw.intent \in IntentLiteral /\ raw.emotion \in EmotionLiteral
    THEN [intent |-> raw.intent, emotion |-> raw.emotion]
    ELSE [intent |-> "answering", emotion |-> "neutral"]

qchat_answer_extraction_chain_guess(raw) ==
    IF raw.option \in OptionLiteral /\ raw.confidence \in 0..100
    THEN [option |-> raw.option, confidence |-> raw.confidence, reasoning |-> Reasoning]
    ELSE [option |-> "A", confidence |-> 0,
          reasoning |-> "Error occurred during extraction"]

qchat_answer_extraction_chain(raw) ==
    IF raw.option \in OptionLiteral /\ raw.confidence \in 0..100
    THEN [option |-> raw.option, confidence |-> raw.confidence, reasoning |-> Reasoning]
    ELSE [option |-> "unclear", confidence |-> 0,
          reasoning |-> "Error occurred during extraction"]

clarification_chain(raw) == IF raw = FAIL THEN "chain_fallback_clarification" ELSE raw

qchat_welcome_chain(raw) == IF raw = FAIL THEN "chain_fallback_welcome" ELSE raw

redirect_chain(raw) == IF raw = FAIL THEN "chain_fallback_redirect" ELSE raw

\* ------------------------------------------------------------------------
\* Routing functions and the edges of create_qchat_assistant_graph
\* ------------------------------------------------------------------------
LastAssistant(h) == h # <<>> /\ h[Len(h)].role = "assistant"

route_after_welcome(h) == "await_user_input"

route_after_await_input_swapped(cm, h) ==
    IF LastAssistant(h) THEN END
    ELSE "classify_intent"

route_after_await_input(cm, h) ==
    IF cm # "" /\ Strip(cm) # "" THEN "classify_intent"
    ELSE IF LastAssistant(h) THEN END
    ELSE "classify_intent"

route_by_intent_nodefault(intent) ==
    CASE intent = "answering" -> "extract_qchat_answer"
      [] intent = "clarification" -> "handle_clarification"
      [] intent = "asking_question" -> "handle_asking_question"
      [] intent = "question_related_query" -> "handle_asking_question"
      [] intent = "greeting" -> "handle_greeting"
      [] intent = "off_topic" -> "handle_off_topic"
      [] intent = "other" -> "handle_clarification"
      [] OTHER -> "KeyError"

\* a greeting is taken for an answer as well
route_by_intent_greedy(intent) ==
    CASE intent \in {"answering", "greeting"} -> "extract_qchat_answer"
      [] intent = "clarification" -> "handle_clarification"
      [] intent = "asking_question" -> "handle_asking_question"
      [] intent = "question_related_query" -> "handle_asking_question"
      [] intent = "off_topic" -> "handle_off_topic"
      [] OTHER -> "handle_clarification"

route_by_intent(intent) ==
    CASE intent = "answering" -> "extract_qchat_answer"
      [] intent = "clarification" -> "handle_clarification"
      [] intent = "asking_question" -> "handle_asking_question"
      [] intent = "question_related_query" -> "handle_asking_question"
      [] intent = "greeting" -> "handle_greeting"
      [] intent = "off_topic" -> "handle_off_topic"
      [] intent = "other" -> "handle_clarification"
      [] OTHER -> "handle_clarification"

route_after_extraction_noE(complete, option) ==
    IF complete /\ option \in {"A", "B", "C", "D"} THEN END ELSE "handle_clarification"

route_after_extraction_loop(complete, option) == "handle_clarification"

route_after_extraction(complete, option) ==
    IF complete /\ option \in Options THEN END ELSE "handle_clarification"

route_after_clarification == "await_user_input"

\* add_edge(handler, "await_user_input") for the four response handlers
HandlerEdge_reclassify(node) ==
    IF node = "handle_off_topic" THEN "classify_intent" ELSE "await_user_input"

\* the clarification goes back to the extraction step
HandlerEdge_reextract(node) ==
    IF node = "handle_clarification" THEN "extract_qchat_answer" ELSE "await_user_input"

HandlerEdge(node) == "await_user_input"

\* add_conditional_edges(node, route, path_map): a route outside the path map
\* is a KeyError in the runtime
PathMap(node) ==
    CASE node = "welcome" -> {"await_user_input"}
      [] node = "await_user_input" -> {"classify_intent"}
      [] node = "classify_intent" ->
            {"extract_qchat_answer", "handle_clarification", "handle_asking_question",
             "handle_greeting", "handle_off_topic"}
      [] node = "extract_qchat_answer" -> {END, "handle_clarification"}

Edge(node, route) == IF route \in PathMap(node) THEN route ELSE "error"

Nodes ==
    {"welcome", "await_user_input", "classify_intent", "extract_qchat_answer",
     "handle_clarification", "handle_asking_question", "handle_greeting",
     "handle_off_topic"}

\* ------------------------------------------------------------------------
\* Scoring (app/scoring.py)
\* ------------------------------------------------------------------------
\* the options that score a point, per question; question 10 is reversed
\* the same three options score on every question
SCORING_RULES_uniform == [q \in 1..10 |-> {"C", "D", "E"}]

SCORING_RULES ==
    [q \in 1..10 |-> IF q = 10 THEN {"A", "B", "C"} ELSE {"C", "D", "E"}]

REFERRAL_THRESHOLD == 3

\* every question scores on C, D, E
calculate_point_unreversed(question_number, selected_option) ==
    IF question_number \notin DOMAIN SCORING_RULES THEN FALSE
    ELSE selected_option \in {"C", "D", "E"}

calculate_point(question_number, selected_option) ==
    IF question_number \notin DOMAIN SCORING_RULES THEN FALSE
    ELSE selected_option \in SCORING_RULES[question_number]

\* Python truth value of answer.get("question_number"): a missing key reads as 0 here
TruthyNumber(n) == n # 0

\* Python truth value of answer.get("selected_option")
TruthyText(t) == t \notin {NONE, ""}

\* the score of an answer: an entry that does not score ends the count
RECURSIVE calculate_total_score_prefix(_)
calculate_total_score_prefix(list) ==
    IF list = <<>> THEN 0
    ELSE LET answer == Head(list)
             q_num == answer.question_number
             option == answer.selected_option
         IN IF TruthyNumber(q_num) /\ TruthyText(option) /\ calculate_point(q_num, option)
            THEN 1 + calculate_total_score_prefix(Tail(list))
            ELSE 0

\* score = 0; for answer in answers: if q_num and option and calculate_point: score += 1
RECURSIVE calculate_total_score(_)
calculate_total_score(list) ==
    IF list = <<>> THEN 0
    ELSE LET answer == Head(list)
             q_num == answer.question_number
             option == answer.selected_option
         IN (IF TruthyNumber(q_num) /\ TruthyText(option) /\ calculate_point(q_num, option)
             THEN 1 ELSE 0) + calculate_total_score(Tail(list))

\* referral from the threshold on
assess_risk_inclusive(total_score) ==
    LET recommend_referral == total_score >= REFERRAL_THRESHOLD
    IN [total_score |-> total_score, max_score |-> 10, threshold |-> REFERRAL_THRESHOLD,
        recommend_referral |-> recommend_referral,
        risk_level |-> IF recommend_referral THEN "high" ELSE "low"]

assess_risk(total_score) ==
    LET recommend_referral == total_score > REFERRAL_THRESHOLD
    IN [total_score |-> total_score, max_score |-> 10, threshold |-> REFERRAL_THRESHOLD,
        recommend_referral |-> recommend_referral,
        risk_level |-> IF recommend_referral THEN "high" ELSE "low"]

\* ------------------------------------------------------------------------
\* Initial state: a created session / a configured script, no chat yet
\* ------------------------------------------------------------------------
InitProgram ==
    /\ mode \in {"api", "script"}
    /\ pc = "idle"
    /\ req = "none"
    /\ steps = 0
    /\ current_question_number \in
          (IF mode = "script" THEN {ScriptQuestion} ELSE {NoQuestion})
    /\ conversation_history = <<>>
    /\ current_message = ""
    /\ bot_response = NONE
    /\ last_intent = NONE
    /\ last_emotion = NONE
    /\ extracted_option = NONE
    /\ extraction_confidence = NoConf
    /\ extraction_reasoning = NONE
    /\ is_answer_complete = FALSE
    /\ next_question_number = NoQuestion
    /\ messages = <<>>
    /\ chat_open = FALSE
    /\ chat_id = NoChat
    /\ issued = 0
    /\ attempt_count = 0
    /\ response = [kind |-> NONE]
    /\ cls_out = NoCls
    /\ ext_out = NoExt
    /\ gen_out = NONE
    /\ gen_in = NONE
    /\ utterance = ""
    /\ workers = [t \in Threads |-> IdleWorker]
    /\ calls = NoCalls
    /\ answers = <<>>
    /\ status = "created"
    /\ current_question = 1
    /\ unanswered_questions = <<>>
    /\ completed_at = NONE

Init == InitProgram /\ call = NoCall

chatState == <<current_question_number, messages, chat_open, chat_id, attempt_count>>

driverVars == <<mode, req, chatState, issued, response, utterance, workers,
                sessionVars, call>>

\* ------------------------------------------------------------------------
\* Nodes.  A node returns a partial update; channels it does not return keep
\* their value.  The edge out of the node is evaluated on the updated state.
\* ------------------------------------------------------------------------
AckMsg(option) ==
    CASE option = "A" -> "ack_A"
      [] option = "B" -> "ack_B"
      [] option = "C" -> "ack_C"
      [] option = "D" -> "ack_D"
      [] option = "E" -> "ack_E"

\* `if conversation_history:` - the conversation already exists
SkipWelcome_never(h) == FALSE

\* skips only when the last entry is an assistant turn
SkipWelcome_assistantlast(h) == h # <<>> /\ h[Len(h)].role = "assistant"

SkipWelcome(h) == h # <<>>

welcome_node ==
    /\ pc = "welcome"
    /\ steps' = steps + 1
    /\ IF SkipWelcome(conversation_history)
       THEN /\ UNCHANGED <<graphState, gen_out, gen_in, calls>>
            /\ pc' = Edge("welcome", route_after_welcome(conversation_history))
       ELSE \E raw \in RawTexts :
              LET result == qchat_welcome_chain(raw)
                  message == IF result = "" THEN "node_fallback_welcome" ELSE result
              IN /\ conversation_history' = <<AssistantTurn(message)>>
                 /\ bot_response' = message
                 /\ current_message' = ""
                 /\ gen_out' = result
                 /\ gen_in' = NONE
                 /\ calls' = [calls EXCEPT !.gen = @ + 1]
                 /\ pc' = Edge("welcome", route_after_welcome(conversation_history'))
                 /\ UNCHANGED <<last_intent, last_emotion, extracted_option,
                                extraction_confidence, extraction_reasoning, is_answer_complete,
                                next_question_number>>
    /\ UNCHANGED <<driverVars, cls_out, ext_out>>

\* the last min(3, len) entries of the history
LastMessages(h) == IF Len(h) >= 3 THEN SubSeq(h, Len(h) - 2, Len(h)) ELSE h

IsDuplicate(h, user_input) ==
    \E i \in 1..Len(LastMessages(h)) :
        LastMessages(h)[i].role = "user" /\ LastMessages(h)[i].content = user_input

await_user_input_node ==
    /\ pc = "await_user_input"
    /\ steps' = steps + 1
    /\ IF current_message = "" \/ Strip(current_message) = ""
       THEN \* interrupt(): the run is suspended inside the node
            /\ pc' = "interrupt"
            /\ UNCHANGED graphState
       ELSE /\ conversation_history' =
                  IF IsDuplicate(conversation_history, current_message)
                  THEN conversation_history
                  ELSE Append(conversation_history, UserTurn(current_message))
            /\ current_message' = current_message
            /\ pc' = Edge("await_user_input",
                          route_after_await_input(current_message', conversation_history'))
            /\ UNCHANGED <<bot_response, last_intent, last_emotion, extracted_option,
                           extraction_confidence, extraction_reasoning, is_answer_complete,
                           next_question_number>>
    /\ UNCHANGED <<driverVars, cls_out, ext_out, gen_out, gen_in, calls>>

classify_intent_node ==
    /\ pc = "classify_intent"
    /\ steps' = steps + 1
    /\ \E raw \in RawClassifications :
         LET result == intent_chain(raw)
         IN /\ last_intent' = result.intent
            /\ last_emotion' = result.emotion
            /\ cls_out' = [raw |-> raw.intent, intent |-> result.intent,
                            emotion |-> result.emotion]
    /\ calls' = [calls EXCEPT !.cls = @ + 1]
    /\ pc' = Edge("classify_intent", route_by_intent(last_intent'))
    /\ UNCHANGED <<conversation_history, current_message, bot_response,
                   extracted_option, extraction_confidence, extraction_reasoning, is_answer_complete,
                   next_question_number>>
    /\ UNCHANGED <<driverVars, ext_out, gen_out, gen_in>>

extract_qchat_answer_node ==
    /\ pc = "extract_qchat_answer"
    /\ steps' = steps + 1
    /\ \E raw \in RawExtractions :
         LET result == qchat_answer_extraction_chain(raw)
             option == result.option
             is_complete == option # "unclear" /\ option \in Options
         IN /\ ext_out' = [raw |-> raw.option, option |-> result.option,
                            confidence |-> result.confidence]
            /\ extracted_option' = option
            /\ extraction_confidence' = result.confidence
            /\ extraction_reasoning' = result.reasoning
            /\ is_answer_complete' = is_complete
            /\ IF is_complete
               THEN /\ conversation_history' =
                          Append(conversation_history, AssistantTurn(AckMsg(option)))
                    /\ bot_response' = AckMsg(option)
                    /\ next_question_number' = current_question_number + 1
                    /\ UNCHANGED current_message
               ELSE /\ current_message' = ""
                    /\ UNCHANGED <<conversation_history, bot_response,
                                   next_question_number>>
    /\ calls' = [calls EXCEPT !.ext = @ + 1]
    /\ pc' = Edge("extract_qchat_answer",
                  route_after_extraction(is_answer_complete', extracted_option'))
    /\ UNCHANGED <<last_intent, last_emotion>>
    /\ UNCHANGED <<driverVars, cls_out, gen_out, gen_in>>

\* looks at the last entry only
LastAssistantMsg_lastentry(h) ==
    IF h # <<>> /\ h[Len(h)].role = "assistant" THEN h[Len(h)].content ELSE NONE

\* content of the most recent assistant turn, NONE if there is none
RECURSIVE LastAssistantMsg(_)
LastAssistantMsg(h) ==
    IF h = <<>> THEN NONE
    ELSE IF h[Len(h)].role = "assistant" THEN h[Len(h)].content
    ELSE LastAssistantMsg(SubSeq(h, 1, Len(h) - 1))

\* a clarification that also forgets the earlier extraction
Clarification_reset ==
    /\ steps' = steps + 1
    /\ \E raw \in RawTexts :
         LET clarification_text == clarification_chain(raw)
         IN /\ gen_out' = clarification_text
            /\ gen_in' = current_message
            /\ bot_response' = clarification_text
            /\ conversation_history' =
                  IF conversation_history # <<>>
                     /\ LastAssistantMsg(conversation_history) = clarification_text
                  THEN conversation_history
                  ELSE Append(conversation_history, AssistantTurn(clarification_text))
    /\ current_message' = ""
    /\ calls' = [calls EXCEPT !.gen = @ + 1]
    /\ pc' = HandlerEdge(pc)
    /\ extracted_option' = NONE
    /\ extraction_confidence' = NoConf
    /\ extraction_reasoning' = NONE
    /\ is_answer_complete' = FALSE
    /\ UNCHANGED <<last_intent, last_emotion, next_question_number>>
    /\ UNCHANGED <<driverVars, cls_out, ext_out>>

\* body of handle_clarification_node, which handle_asking_question_node reuses
Clarification ==
    /\ steps' = steps + 1
    /\ \E raw \in RawTexts :
         LET clarification_text == clarification_chain(raw)
         IN /\ gen_out' = clarification_text
            /\ gen_in' = current_message
            /\ bot_response' = clarification_text
            /\ conversation_history' =
                  IF conversation_history # <<>>
                     /\ LastAssistantMsg(conversation_history) = clarification_text
                  THEN conversation_history
                  ELSE Append(conversation_history, AssistantTurn(clarification_text))
    /\ current_message' = ""
    /\ calls' = [calls EXCEPT !.gen = @ + 1]
    /\ pc' = HandlerEdge(pc)
    /\ UNCHANGED <<last_intent, last_emotion, extracted_option,
                   extraction_confidence, extraction_reasoning, is_answer_complete, next_question_number>>
    /\ UNCHANGED <<driverVars, cls_out, ext_out>>

handle_clarification_node ==
    /\ pc = "handle_clarification"
    /\ Clarification

handle_asking_question_node ==
    /\ pc = "handle_asking_question"
    /\ Clarification

handle_greeting_node ==
    /\ pc = "handle_greeting"
    /\ steps' = steps + 1
    /\ \E raw \in RawTexts :
         LET welcome_message == qchat_welcome_chain(raw)
             message == IF welcome_message # "" THEN welcome_message
                        ELSE "node_fallback_greeting"
         IN /\ gen_out' = welcome_message
            /\ gen_in' = NONE
            /\ bot_response' = message
            /\ conversation_history' = Append(conversation_history, AssistantTurn(message))
    /\ current_message' = ""
    /\ calls' = [calls EXCEPT !.gen = @ + 1]
    /\ pc' = HandlerEdge("handle_greeting")
    /\ UNCHANGED <<last_intent, last_emotion, extracted_option,
                   extraction_confidence, extraction_reasoning, is_answer_complete, next_question_number>>
    /\ UNCHANGED <<driverVars, cls_out, ext_out>>

handle_off_topic_node ==
    /\ pc = "handle_off_topic"
    /\ steps' = steps + 1
    /\ \E raw \in RawTexts :
         LET result == redirect_chain(raw)
             message == IF result = "" THEN "node_fallback_redirect" ELSE result
         IN /\ gen_out' = result
            /\ gen_in' = current_message
            /\ bot_response' = message
            /\ conversation_history' = Append(conversation_history, AssistantTurn(message))
    /\ current_message' = ""
    /\ calls' = [calls EXCEPT !.gen = @ + 1]
    /\ pc' = HandlerEdge("handle_off_topic")
    /\ UNCHANGED <<last_intent, last_emotion, extracted_option,
                   extraction_confidence, extraction_reasoning, is_answer_complete, next_question_number>>
    /\ UNCHANGED <<driverVars, cls_out, ext_out>>

\* ------------------------------------------------------------------------
\* Drivers
\* ------------------------------------------------------------------------
Resting == pc \in {"interrupt", END}

\* graph.invoke(input, config) with a non-resume input starts at the entry point
Invoke ==
    /\ pc' = "welcome"
    /\ steps' = 0
    /\ cls_out' = NoCls
    /\ ext_out' = NoExt
    /\ gen_out' = NONE
    /\ gen_in' = NONE
    /\ calls' = NoCalls

\* test_qchat_chat: graph.invoke(initial_state, config_with_limit)
ScriptStart ==
    /\ mode = "script"
    /\ pc = "idle"
    /\ Invoke
    /\ UNCHANGED <<graphState, driverVars>>

\* test_qchat_chat: current_state["current_message"] = user_input; graph.invoke(current_state)
\* (current_state is the previous result; after a completed answer the loop goes
\* on when the user asks to continue)
ScriptSend ==
    /\ mode = "script"
    /\ Resting
    /\ Len(conversation_history) + 2 <= MaxHist
    /\ \E user_input \in Msgs :
         /\ current_message' = user_input
         /\ utterance' = user_input
    /\ Invoke
    /\ UNCHANGED <<conversation_history, bot_response, last_intent, last_emotion,
                   extracted_option, extraction_confidence, extraction_reasoning, is_answer_complete,
                   next_question_number>>
    /\ UNCHANGED <<mode, req, chatState, issued, response, workers, sessionVars, call>>

\* a state dict that sets only the context keys: every other channel is absent
FreshChannels ==
    /\ bot_response' = NONE
    /\ last_intent' = NONE
    /\ last_emotion' = NONE
    /\ extracted_option' = NONE
    /\ extraction_confidence' = NoConf
    /\ extraction_reasoning' = NONE
    /\ is_answer_complete' = FALSE
    /\ next_question_number' = NoQuestion

LastContent(msgs, default) == IF msgs # <<>> THEN msgs[Len(msgs)].content ELSE default

\* keys of QChatAssistantState: the channels of the compiled graph.  A key of
\* the input dict that is not a channel is not written anywhere, and the
\* result of graph.invoke holds channel values only
StateKeys ==
    {"session_token", "current_question_number", "language", "question_text",
     "options", "conversation_history", "current_message", "bot_response",
     "last_intent", "last_emotion", "extracted_option", "extraction_confidence",
     "extraction_reasoning", "is_answer_complete", "chat_id",
     "next_question_number", "parent_name", "child_name"}

\* result.get("attempt_count", 0) for a run whose input held attempt_count = n:
\* no node returns the key
result_attempt_count(n) == IF "attempt_count" \in StateKeys THEN n ELSE 0

\* load_chat_state(session_token, question_number)
load_chat_state(q) == chat_open /\ current_question_number = q

\* get_chat_messages(session_token, question_number)
get_chat_messages(q) == IF load_chat_state(q) THEN messages ELSE <<>>

\* start_chat, chat already exists for this question: return the stored messages
start_chat_existing ==
    /\ mode = "api"
    /\ req = "none"
    /\ \E q \in QuestionNumbers : load_chat_state(q)
    /\ response' = [kind |-> "start", message |-> LastContent(messages, "Welcome back!"),
                    existing |-> Len(messages)]
    /\ UNCHANGED <<graphState, mode, req, chatState, issued, utterance, workers,
                   pc, steps, cls_out, ext_out, gen_out, gen_in, calls, sessionVars, call>>

\* updates the question and the chat id of the chat_state in place
initialize_chat_state_inplace(q, id) ==
    /\ chat_open' = TRUE
    /\ current_question_number' = q
    /\ chat_id' = id
    /\ UNCHANGED <<messages, attempt_count>>

\* initialize_chat_state: a fresh chat_state replaces whatever the session held
initialize_chat_state(q, id) ==
    /\ chat_open' = TRUE
    /\ current_question_number' = q
    /\ chat_id' = id
    /\ messages' = <<>>
    /\ attempt_count' = 0

\* start_chat, no chat for this question: initialize_chat_state under a new
\* chat id, then run the graph on initial_state
start_chat ==
    /\ mode = "api"
    /\ req = "none"
    /\ issued < MaxChats
    /\ \E q \in QuestionNumbers :
         /\ ~load_chat_state(q)
         /\ initialize_chat_state(q, issued + 1)
    /\ issued' = issued + 1
    /\ conversation_history' = <<>>
    /\ current_message' = ""
    /\ FreshChannels
    /\ utterance' = ""
    /\ req' = "start"
    /\ response' = [kind |-> NONE]
    /\ Invoke
    /\ UNCHANGED <<mode, workers, sessionVars, call>>

\* start_chat after graph.invoke returned: save and return the welcome message
start_chat_return ==
    /\ req = "start"
    /\ Resting
    /\ LET welcome_message ==
             IF bot_response = NONE THEN "Hello! How can I help you with this question?"
             ELSE bot_response
       IN /\ messages' = Append(messages, AssistantTurn(welcome_message))
          /\ response' = [kind |-> "start", message |-> welcome_message, existing |-> 1]
    /\ req' = "none"
    /\ UNCHANGED <<graphState, mode, current_question_number, chat_open, chat_id,
                   utterance, workers, attempt_count, issued, pc, steps, cls_out, ext_out,
                   gen_out, gen_in, calls, sessionVars, call>>

\* send_chat_message with a chat id that is not the session's current chat
send_chat_message_notfound ==
    /\ mode = "api"
    /\ req = "none"
    /\ \E request_chat_id \in 1..issued : ~chat_open \/ chat_id # request_chat_id
    /\ response' = [kind |-> "error", status |-> 404]
    /\ UNCHANGED <<graphState, mode, req, chatState, issued, utterance, workers,
                   pc, steps, cls_out, ext_out, gen_out, gen_in, calls, sessionVars, call>>

\* send_chat_message up to graph.invoke: save the user message, rebuild the
\* state from the stored messages
send_chat_message ==
    /\ mode = "api"
    /\ req = "none"
    /\ \E request_chat_id \in 1..issued : chat_open /\ chat_id = request_chat_id
    /\ Len(messages) + 2 <= MaxHist
    /\ UNCHANGED <<mode, current_question_number, chat_open, chat_id, attempt_count,
                   issued, workers, sessionVars, call>>
    /\ \E message \in ApiMsgs :
         /\ messages' = Append(messages, UserTurn(message))
         /\ conversation_history' = get_chat_messages(current_question_number)'
         /\ current_message' = message
         /\ utterance' = message
    /\ FreshChannels
    /\ req' = "message"
    /\ response' = [kind |-> NONE]
    /\ Invoke

Range(list) == {list[i] : i \in DOMAIN list}

AnsweredQuestions(list) == {list[i].question_number : i \in DOMAIN list}

\* every submission is appended
PutAnswer_append(list, answer) == Append(list, answer)

\* the earlier answer of the question is dropped and the new one appended
PutAnswer_move(list, answer) ==
    LET other(a) == a.question_number # answer.question_number
    IN Append(SelectSeq(list, other), answer)

\* the answer list with the answer of its question replaced, or appended
PutAnswer(list, answer) ==
    LET hits == {i \in DOMAIN list : list[i].question_number = answer.question_number}
    IN IF hits # {}
       THEN LET answer_index == CHOOSE i \in hits : \A j \in hits : i <= j
            IN [list EXCEPT ![answer_index] = answer]
       ELSE Append(list, answer)

\* the questionnaire part of session_data as one value
Session ==
    [answers |-> answers, status |-> status, current_question |-> current_question,
     unanswered_questions |-> unanswered_questions, completed_at |-> completed_at]

\* the extracted answer is saved at once, as save_chat_answer would
session_after_chat_autosave(session, question_number, is_complete, option, result_next_q) ==
    IF is_complete /\ option \in Options
    THEN [session |->
             [session EXCEPT !.answers =
                 PutAnswer(@, [question_number |-> question_number,
                               selected_option |-> option,
                               scored_point |-> calculate_point(question_number, option)])],
          next_q |-> NoQuestion]
    ELSE [session |-> session, next_q |-> NoQuestion]

\* send_chat_message, the branches on the result of the run: what becomes of
\* the questionnaire part of the session and which next_q is answered.
\* (The closing check `next_q > 10` cannot apply: next_q is validated to 1..10
\* or is question_number + 1 for question_number < 10.)
session_after_chat(session, question_number, is_complete, option, result_next_q) ==
    IF is_complete /\ option \in Options
    THEN [session |-> session, next_q |-> NoQuestion]
    ELSE IF is_complete /\ option = "unanswered"
    THEN LET next_q ==
                 IF result_next_q # NoQuestion /\ 1 <= result_next_q /\ result_next_q <= 10
                 THEN result_next_q
                 ELSE IF question_number < 10 THEN question_number + 1
                 ELSE NoQuestion
             unanswered ==
                 IF question_number \in Range(session.unanswered_questions)
                 THEN session.unanswered_questions
                 ELSE Append(session.unanswered_questions, question_number)
             all_attempted == AnsweredQuestions(session.answers) \cup Range(unanswered)
             completed == Cardinality(all_attempted) >= 10 \/ question_number >= 10
         IN [session |->
                [session EXCEPT
                    !.unanswered_questions = unanswered,
                    !.status = IF completed THEN "completed" ELSE @,
                    !.completed_at = IF completed THEN UtcNow ELSE @,
                    !.current_question =
                        IF ~completed /\ next_q # NoQuestion THEN next_q ELSE @],
             next_q |-> IF completed THEN NoQuestion ELSE next_q]
    ELSE [session |-> session, next_q |-> NoQuestion]

\* send_chat_message after graph.invoke returned: save the attempt count and the
\* bot response, branch on the result, answer
send_chat_message_return ==
    /\ req = "message"
    /\ Resting
    /\ attempt_count' = result_attempt_count(attempt_count)
    /\ LET bot == IF bot_response = NONE THEN "" ELSE bot_response
           is_complete == is_answer_complete
           \* AnswerOption(extracted_option): "unanswered" is no member of the enum,
           \* the ValueError is caught and the response carries no option
           valid == is_complete /\ extracted_option \in Options
           after == session_after_chat(Session, current_question_number, is_complete,
                                       extracted_option, next_question_number)
       IN /\ messages' = IF bot # "" THEN Append(messages, AssistantTurn(bot)) ELSE messages
          /\ answers' = after.session.answers
          /\ status' = after.session.status
          /\ current_question' = after.session.current_question
          /\ unanswered_questions' = after.session.unanswered_questions
          /\ completed_at' = after.session.completed_at
          /\ response' = [kind |-> "message", message |-> bot,
                          extracted_option |-> IF valid THEN extracted_option ELSE NONE,
                          is_complete |-> is_complete,
                          next_question_number |-> after.next_q,
                          confidence |-> IF is_complete THEN extraction_confidence ELSE NoConf]
    /\ req' = "none"
    /\ UNCHANGED <<graphState, mode, current_question_number, chat_open, chat_id,
                   utterance, workers, issued, pc, steps, cls_out, ext_out, gen_out, gen_in,
                   calls, call>>

\* close_chat: clear_chat_state sets chat_state to None; the result of the last
\* run belonged to a finished request and is gone with it
close_chat ==
    /\ mode = "api"
    /\ req = "none"
    /\ chat_open
    /\ chat_open' = FALSE
    /\ chat_id' = NoChat
    /\ current_question_number' = NoQuestion
    /\ messages' = <<>>
    /\ attempt_count' = 0
    /\ conversation_history' = <<>>
    /\ current_message' = ""
    /\ FreshChannels
    /\ pc' = "idle"
    /\ steps' = 0
    /\ cls_out' = NoCls
    /\ ext_out' = NoExt
    /\ gen_out' = NONE
    /\ gen_in' = NONE
    /\ calls' = NoCalls
    /\ utterance' = ""
    /\ response' = [kind |-> "closed"]
    /\ UNCHANGED <<mode, req, issued, workers, sessionVars, call>>

\* the options submitted: for each question one that scores and one that does not
SubmitOptions == {"A", "E"}

\* any session is open for answers
SubmitGuard_open(question_number) ==
    /\ mode = "api"
    /\ req = "none"
    /\ question_number >= 1 /\ question_number <= 10

\* submit_answer, its checks before anything is written: the session is not
\* completed and the question number is one of 1..10
SubmitGuard(question_number) ==
    /\ mode = "api"
    /\ req = "none"
    /\ status # "completed"
    /\ question_number >= 1 /\ question_number <= 10

\* submit_answer: record the answer (replace the question's earlier answer),
\* move current_question, complete the session, answer with the score
SubmitAnswer(question_number, selected_option) ==
    LET scored_point == calculate_point(question_number, selected_option)
        answer == [question_number |-> question_number,
                   selected_option |-> selected_option,
                   scored_point |-> scored_point]
        new_answers == PutAnswer(answers, answer)
        next_question == question_number + 1
        all_attempted == (AnsweredQuestions(new_answers) \cup Range(unanswered_questions))
                            \cup {question_number}
        is_complete == Cardinality(all_attempted) >= 10
        completes == next_question > 10 /\ Cardinality(all_attempted) >= 10
    IN /\ SubmitGuard(question_number)
       /\ answers' = new_answers
       /\ current_question' = IF next_question <= 10 THEN next_question ELSE 10
       /\ status' = IF completes THEN "completed" ELSE "in_progress"
       /\ completed_at' = IF completes THEN UtcNow ELSE completed_at
       /\ response' = [kind |-> "answer", accepted |-> TRUE,
                       next_question_number |->
                           IF is_complete THEN NoQuestion ELSE next_question,
                       is_complete |-> is_complete,
                       current_score |-> calculate_total_score(new_answers)]
       /\ UNCHANGED <<graphState, mode, req, chatState, issued, utterance, workers,
                      pc, steps, cls_out, ext_out, gen_out, gen_in, calls,
                      unanswered_questions, call>>

\* submit_answer of the questions and options that go with a chat
submit_answer ==
    \E question_number \in QuestionNumbers :
       \E selected_option \in SubmitOptions :
          SubmitAnswer(question_number, selected_option)

Next ==
    \/ ScriptStart
    \/ ScriptSend
    \/ start_chat
    \/ start_chat_existing
    \/ start_chat_return
    \/ send_chat_message
    \/ send_chat_message_notfound
    \/ send_chat_message_return
    \/ close_chat
    \/ welcome_node
    \/ await_user_input_node
    \/ classify_intent_node
    \/ extract_qchat_answer_node
    \/ handle_clarification_node
    \/ handle_asking_question_node
    \/ handle_greeting_node
    \/ handle_off_topic_node

Spec == Init /\ [][Next]_vars

\* one node step of a run in progress
GraphStep ==
    \/ welcome_node
    \/ await_user_input_node
    \/ classify_intent_node
    \/ extract_qchat_answer_node
    \/ handle_clarification_node
    \/ handle_asking_question_node
    \/ handle_greeting_node
    \/ handle_off_topic_node

\* a request handler returning after graph.invoke did
HandlerReturn == start_chat_return \/ send_chat_message_return

\* graph.invoke runs its nodes until the run ends or is suspended, and a
\* request handler then runs to its return; when the user acts is not
\* constrained
FairSpec == Spec /\ WF_vars(GraphStep) /\ WF_vars(HandlerReturn)

TypeOK ==
    /\ mode \in {"api", "script"}
    /\ pc \in Nodes \cup {"idle", "interrupt", END, "error"}
    /\ Len(conversation_history) <= MaxHist
    /\ Len(messages) <= MaxHist
    /\ is_answer_complete \in BOOLEAN
    /\ issued \in 0..MaxChats
    /\ chat_id \in {NoChat} \cup 1..issued
    /\ chat_open <=> chat_id # NoChat
    /\ attempt_count \in Nat

\* ------------------------------------------------------------------------
\* Message requests handled at the same time.  start_chat, send_chat_message
\* and close_chat are plain `def` endpoints, which the server runs on worker
\* threads; every helper reads the whole session file (load_session) and
\* writes it back (save_session), and nothing serialises two requests of one
\* session.  A thread's position is the next load or save of send_chat_message.
\* ------------------------------------------------------------------------
\* the stored conversation when the requests arrive: a chat that was started
ConcBase == <<AssistantTurn("g1")>>

\* bot_response of a graph run on a message: a generated text, or none
RunBots == GenTexts \cup {""}

ConcInit ==
    /\ mode = "api"
    /\ pc = "interrupt"
    /\ req = "none"
    /\ steps = 2
    /\ current_question_number = 1
    /\ conversation_history = ConcBase
    /\ current_message = ""
    /\ bot_response = "g1"
    /\ last_intent = NONE
    /\ last_emotion = NONE
    /\ extracted_option = NONE
    /\ extraction_confidence = NoConf
    /\ extraction_reasoning = NONE
    /\ is_answer_complete = FALSE
    /\ next_question_number = NoQuestion
    /\ messages = ConcBase
    /\ chat_open = TRUE
    /\ chat_id = 1
    /\ issued = 1
    /\ attempt_count = 0
    /\ response = [kind |-> "start", message |-> "g1", existing |-> 1]
    /\ cls_out = NoCls
    /\ ext_out = NoExt
    /\ gen_out = "g1"
    /\ gen_in = NONE
    /\ utterance = ""
    /\ workers = [t \in Threads |-> IdleWorker]
    /\ calls = [cls |-> 0, ext |-> 0, gen |-> 1]
    /\ answers = <<>>
    /\ status = "created"
    /\ current_question = 1
    /\ unanswered_questions = <<>>
    /\ completed_at = NONE
    /\ call = NoCall

\* what no thread touches while messages are handled
concFrame ==
    <<mode, pc, req, steps, current_question_number, graphState, chat_open, chat_id,
      issued, response, cls_out, ext_out, gen_out, gen_in, utterance, calls,
      sessionVars, call>>

\* send_chat_message accepts the request: session and chat id are valid
thread_receive(t) ==
    /\ workers[t].pc = "idle"
    /\ chat_open
    /\ \E message \in Msgs :
         workers' = [workers EXCEPT ![t] = [@ EXCEPT !.pc = "user:load", !.message = message]]
    /\ UNCHANGED <<concFrame, messages, attempt_count>>

\* load_session at the start of save_chat_message, or before the attempt
\* count is set: the thread now holds a copy of the stored chat state
thread_load(t) ==
    /\ workers[t].pc \in {"user:load", "attempt:load", "bot:load"}
    /\ workers' = [workers EXCEPT ![t] =
                      [@ EXCEPT !.session = messages,
                                !.pc = CASE workers[t].pc = "user:load" -> "user:save"
                                         [] workers[t].pc = "attempt:load" -> "attempt:save"
                                         [] workers[t].pc = "bot:load" -> "bot:save"]]
    /\ UNCHANGED <<concFrame, messages, attempt_count>>

\* save_session: the thread writes its copy back, with its change
thread_save(t) ==
    /\ workers[t].pc \in {"user:save", "attempt:save", "bot:save"}
    /\ LET w == workers[t]
       IN /\ messages' =
                CASE w.pc = "user:save" -> Append(w.session, UserTurn(w.message))
                  [] w.pc = "attempt:save" -> w.session
                  [] w.pc = "bot:save" -> Append(w.session, AssistantTurn(w.bot))
          /\ attempt_count' =
                IF w.pc = "attempt:save" THEN result_attempt_count(attempt_count)
                ELSE attempt_count
          /\ workers' = [workers EXCEPT ![t] =
                            [@ EXCEPT !.pc = CASE w.pc = "user:save" -> "invoke"
                                               [] w.pc = "attempt:save" ->
                                                     IF w.bot # "" THEN "bot:load" ELSE "done"
                                               [] w.pc = "bot:save" -> "done"]]
    /\ UNCHANGED concFrame

\* get_chat_messages and graph.invoke on the thread's own graph and state
thread_invoke(t) ==
    /\ workers[t].pc = "invoke"
    /\ \E bot \in RunBots :
         workers' = [workers EXCEPT ![t] =
                        [@ EXCEPT !.session = messages, !.bot = bot, !.pc = "attempt:load"]]
    /\ UNCHANGED <<concFrame, messages, attempt_count>>

ConcNext ==
    \E t \in Threads :
        \/ thread_receive(t)
        \/ thread_load(t)
        \/ thread_save(t)
        \/ thread_invoke(t)

ConcSpec == ConcInit /\ [][ConcNext]_vars

\* ------------------------------------------------------------------------
\* The questionnaire beside one short conversation: the session endpoints
\* (submit_answer) and the chat endpoints on one session.  The
\* conversation is kept shorter than in Spec: one chat id less, one turn less.
\* ------------------------------------------------------------------------
SessionInit == Init /\ mode = "api"

session_start_chat == issued + 1 < MaxChats /\ start_chat

session_send_chat_message == Len(messages) + 3 <= MaxHist /\ send_chat_message

SessionNext ==
    \/ submit_answer
    \/ session_start_chat
    \/ start_chat_return
    \/ session_send_chat_message
    \/ send_chat_message_return
    \/ welcome_node
    \/ await_user_input_node
    \/ classify_intent_node
    \/ extract_qchat_answer_node
    \/ handle_clarification_node
    \/ handle_asking_question_node
    \/ handle_greeting_node
    \/ handle_off_topic_node

SessionSpec == SessionInit /\ [][SessionNext]_vars

\* ------------------------------------------------------------------------
\* The questionnaire on its own: all ten questions are submitted, each the
\* first time in the order of the pages, except that question 10 may be
\* submitted at any time and questions 1 and 10 may be submitted again
\* ------------------------------------------------------------------------
AllQuestions == 1..10

\* question numbers and options that request validation turns away
InvalidQuestions == {0, 11}
InvalidOptions == {"F"}

\* the first page that has no answer yet (page 1 when all have one)
FirstUnanswered ==
    LET open == AllQuestions \ AnsweredQuestions(answers)
    IN IF open = {} THEN 1 ELSE CHOOSE q \in open : \A r \in open : q <= r

QuestionnaireOptions(question_number) ==
    IF question_number \in QuestionNumbers THEN SubmitOptions ELSE {"C"}

questionnaire_submit_answer ==
    \E question_number \in {FirstUnanswered} \cup QuestionNumbers :
       \E selected_option \in QuestionnaireOptions(question_number) :
          SubmitAnswer(question_number, selected_option)

\* submit_answer on a completed session: 400 before anything is written
submit_answer_completed ==
    /\ mode = "api"
    /\ req = "none"
    /\ status = "completed"
    /\ \E question_number \in AllQuestions, selected_option \in SubmitOptions :
          response' = [kind |-> "error", status |-> 400]
    /\ UNCHANGED <<graphState, mode, req, chatState, issued, utterance, workers,
                   pc, steps, cls_out, ext_out, gen_out, gen_in, calls,
                   sessionVars, call>>

\* submit_answer with a question number outside 1..10 or an option outside
\* A..E: SubmitAnswerRequest does not validate, the handler is not entered
submit_answer_invalid ==
    /\ mode = "api"
    /\ req = "none"
    /\ \E question_number \in AllQuestions \cup InvalidQuestions,
          selected_option \in SubmitOptions \cup InvalidOptions :
          /\ question_number \in InvalidQuestions \/ selected_option \in InvalidOptions
          /\ response' = [kind |-> "error", status |-> 422]
    /\ UNCHANGED <<graphState, mode, req, chatState, issued, utterance, workers,
                   pc, steps, cls_out, ext_out, gen_out, gen_in, calls,
                   sessionVars, call>>

\* get_report: 400 unless the session is completed, else score and risk
get_report ==
    /\ mode = "api"
    /\ req = "none"
    /\ response' =
          IF status # "completed"
          THEN [kind |-> "error", status |-> 400]
          ELSE LET total_score == calculate_total_score(answers)
                   risk_assessment == assess_risk(total_score)
               IN [kind |-> "report", total_score |-> total_score,
                   recommend_referral |-> risk_assessment.recommend_referral,
                   risk_level |-> risk_assessment.risk_level,
                   completed_at |-> completed_at]
    /\ UNCHANGED <<graphState, mode, req, chatState, issued, utterance, workers,
                   pc, steps, cls_out, ext_out, gen_out, gen_in, calls,
                   sessionVars, call>>

QuestionnaireInit == Init /\ mode = "api"

QuestionnaireNext ==
    \/ questionnaire_submit_answer
    \/ submit_answer_completed
    \/ submit_answer_invalid
    \/ get_report

QuestionnaireSpec == QuestionnaireInit /\ [][QuestionnaireNext]_vars

\* ------------------------------------------------------------------------
\* The scoring functions on their own: a call is drawn from the argument
\* samples below and the function is applied to it
\* ------------------------------------------------------------------------
\* longest answer list given to calculate_total_score
MaxAnswers == 3

\* question numbers: every question, one below and one above the questionnaire
ScoreQuestions == 0..11

\* entries of an answer list: questions with and without a scoring rule
ScoreEntries ==
    {[question_number |-> q, selected_option |-> o] :
        q \in {0, 1, 10, 11}, o \in {"A", "C", "E"}}

AnswerLists == UNION {[1..n -> ScoreEntries] : n \in 0..MaxAnswers}

\* one answer per question, in question order
CompleteSet(choice) ==
    [q \in 1..10 |-> [question_number |-> q, selected_option |-> choice[q]]]

TypicalSet == CompleteSet([q \in 1..10 |-> IF q = 10 THEN "E" ELSE "A"])

\* questions 1..9 each on C, D or E (the same option within 1..3, 4..6, 7..9),
\* question 10 on A
AtypicalSets ==
    {CompleteSet([q \in 1..10 |-> IF q = 10 THEN "A"
                                  ELSE IF q <= 3 THEN o[1]
                                  ELSE IF q <= 6 THEN o[2] ELSE o[3]]) :
        o \in [1..3 -> {"C", "D", "E"}]}

ScoringCalls ==
    {[fn |-> "calculate_point", question_number |-> q, selected_option |-> o,
      done |-> FALSE, returned |-> NONE] : q \in ScoreQuestions, o \in Options}
    \cup {[fn |-> "calculate_total_score", answers |-> list, done |-> FALSE,
           returned |-> NONE] : list \in AnswerLists \cup {TypicalSet} \cup AtypicalSets}
    \cup {[fn |-> "assess_risk", total_score |-> n, done |-> FALSE, returned |-> NONE] :
           n \in 0..10}

programVars == <<mode, pc, req, steps, graphState, chatState, issued, response,
                 cls_out, ext_out, gen_out, gen_in, utterance, workers, calls,
                 sessionVars>>

ScoringInit == InitProgram /\ mode = "api" /\ call \in ScoringCalls

apply_calculate_point ==
    /\ call.fn = "calculate_point"
    /\ ~call.done
    /\ call' = [call EXCEPT !.done = TRUE,
                            !.returned = calculate_point(call.question_number,
                                                         call.selected_option)]
    /\ UNCHANGED programVars

apply_calculate_total_score ==
    /\ call.fn = "calculate_total_score"
    /\ ~call.done
    /\ call' = [call EXCEPT !.done = TRUE, !.returned = calculate_total_score(call.answers)]
    /\ UNCHANGED programVars

apply_assess_risk ==
    /\ call.fn = "assess_risk"
    /\ ~call.done
    /\ call' = [call EXCEPT !.done = TRUE, !.returned = assess_risk(call.total_score)]
    /\ UNCHANGED programVars

ScoringNext ==
    \/ apply_calculate_point
    \/ apply_calculate_total_score
    \/ apply_assess_risk

ScoringSpec == ScoringInit /\ [][ScoringNext]_vars

\* ------------------------------------------------------------------------
\* The result branches of send_chat_message on their own: the branch code is
\* applied to a session, the chat's question and a result of the run.  The
\* results include the outcome "unanswered", which the handler has a branch
\* for.
\* ------------------------------------------------------------------------
\* answers with one scoring answer for each of the questions 1..n
AnsweredUpTo(n) ==
    [q \in 1..n |-> [question_number |-> q, selected_option |-> "C",
                     scored_point |-> calculate_point(q, "C")]]

\* sessions in progress: nothing or questions 1..9 answered, nothing or one
\* question recorded as unanswered
OutcomeSessions ==
    {[answers |-> a, status |-> "in_progress", current_question |-> c,
      unanswered_questions |-> u, completed_at |-> NONE] :
        a \in {AnsweredUpTo(0), AnsweredUpTo(9)}, c \in QuestionNumbers,
        u \in {<<>>, <<1>>, <<10>>}}

\* results of a run: an option, no option, the outcome unanswered; with and
\* without a next question, valid or not
OutcomeResults ==
    {[is_complete |-> c, option |-> o, next_q |-> n] :
        c \in BOOLEAN, o \in {"A", "unclear", "unanswered"}, n \in {NoQuestion, 2, 11}}

OutcomeCalls ==
    {[fn |-> "session_after_chat", session |-> session, question_number |-> q,
      result |-> result, done |-> FALSE, returned |-> NONE] :
        session \in OutcomeSessions, q \in QuestionNumbers, result \in OutcomeResults}

OutcomeInit == InitProgram /\ mode = "api" /\ call \in OutcomeCalls

apply_session_after_chat ==
    /\ call.fn = "session_after_chat"
    /\ ~call.done
    /\ call' = [call EXCEPT !.done = TRUE,
                            !.returned = session_after_chat(
                                call.session, call.question_number,
                                call.result.is_complete, call.result.option,
                                call.result.next_q)]
    /\ UNCHANGED programVars

OutcomeNext == apply_session_after_chat

OutcomeSpec == OutcomeInit /\ [][OutcomeNext]_vars

\* ------------------------------------------------------------------------
\* Properties
\* ------------------------------------------------------------------------
C1_Expected(intent) ==
    IF intent = "answering" THEN "extract_qchat_answer"
    ELSE IF intent \in {"asking_question", "question_related_query"}
         THEN "handle_asking_question"
    ELSE IF intent = "greeting" THEN "handle_greeting"
    ELSE IF intent = "off_topic" THEN "handle_off_topic"
    ELSE "handle_clarification"

C1_AllIntentValues == IntentLiteral \cup {"bogus", NONE}

\* C1: the step out of classify_intent goes to the handler the table gives
\* for last_intent (answering -> extract, clarification -> clarify,
\* asking_question / question_related_query -> answer question, greeting ->
\* greet, off_topic -> redirect, anything else -> clarify), and the table plus
\* the graph's path map sends every value, known or not, to a handler and
\* never to an error.
C1_RoutingTotal ==
    [][pc = "classify_intent" =>
          /\ pc' = C1_Expected(last_intent')
          /\ \A i \in C1_AllIntentValues :
                Edge("classify_intent", route_by_intent(i)) = C1_Expected(i)]_vars

C1_Witness ==
    pc = "handle_clarification" /\ cls_out.raw = "skip" /\ last_intent = "skip"

\* C2: when the extractor returns an option A..E, the extraction step ends the
\* run in Done with extracted_option and extraction_confidence as returned,
\* is_answer_complete true, and exactly one assistant turn appended: the
\* acknowledgment naming the option, which is also the bot response.
C2_ExtractedOptionCompletes ==
    [][(pc = "extract_qchat_answer" /\ ext_out'.option \in Options) =>
          /\ pc' = END
          /\ extracted_option' = ext_out'.option
          /\ extraction_confidence' = ext_out'.confidence
          /\ is_answer_complete'
          /\ bot_response' = AckMsg(ext_out'.option)
          /\ conversation_history' =
                Append(conversation_history, AssistantTurn(bot_response'))]_vars

C2_Witness ==
    /\ pc = END
    /\ ext_out.option = "E"
    /\ extracted_option = "E"
    /\ extraction_confidence = 90
    /\ is_answer_complete
    /\ conversation_history[Len(conversation_history)] = AssistantTurn("ack_E")

\* C3: whenever control is back with the caller after a handler ran in the run
\* (the run is suspended in await_user_input or has reached Done, and welcome
\* generation, extraction or a response handler was executed) current_message
\* is empty.
C3_CurrentMessageCleared == (Resting /\ calls # NoCalls) => current_message = ""

\* C4: when the extractor returns unclear or fails, is_answer_complete is
\* false, extracted_option is unclear, the step out of extraction goes to
\* clarification, and the rest of the run only clarifies and suspends in
\* await_user_input; it never reaches Done.  A failure and an unclear answer
\* take the same path.
C4_UnclearRetries ==
    [][ext_out'.raw \in {"unclear", FAIL} =>
          /\ ~is_answer_complete'
          /\ extracted_option' = "unclear"
          /\ pc' \in {"handle_clarification", "await_user_input", "interrupt"}
          /\ (pc = "extract_qchat_answer" => pc' = "handle_clarification")
          /\ (pc = "handle_clarification" => pc' = "await_user_input")
          /\ (pc = "await_user_input" => pc' = "interrupt")]_vars

C4_Witness ==
    /\ pc = "interrupt"
    /\ ext_out.raw = FAIL
    /\ extracted_option = "unclear"
    /\ ~is_answer_complete
    /\ calls.gen = 1

\* C5 (as claimed): once is_answer_complete is true, it stays true and a later
\* user message changes nothing in that state object: neither the history nor
\* the extracted option (a step in which the api driver builds a new state
\* object for a request is not a step of that object).
C5_DoneIsTerminal ==
    [][(is_answer_complete /\ req' = req) =>
          /\ is_answer_complete'
          /\ conversation_history' = conversation_history
          /\ extracted_option' = extracted_option]_vars

\* C5 (amended): is_answer_complete turns true only in the extraction step, on
\* an option A..E, and that step ends the run in Done, where the state machine
\* changes nothing more; only the driver's next message leaves Done, and
\* is_answer_complete turns false again only when that later run's extraction
\* is unclear or when the api driver builds the state for a new request or
\* closes the chat.
C5_CompleteEndsRunOnly ==
    [][/\ (~is_answer_complete /\ is_answer_complete') =>
             (pc = "extract_qchat_answer" /\ pc' = END /\ extracted_option' \in Options)
       /\ pc' = END => is_answer_complete'
       /\ pc = END => (pc' \in {END, "welcome", "idle"} /\ (pc' = END => UNCHANGED graphState))
       /\ (is_answer_complete /\ ~is_answer_complete') =>
             \/ pc = "extract_qchat_answer" /\ extracted_option' = "unclear"
             \/ mode = "api" /\ pc' = "welcome" /\ req' \in {"message", "start"}
             \/ mode = "api" /\ pc' = "idle" /\ ~chat_open']_vars

C5_Witness ==
    /\ mode = "script"
    /\ pc = "interrupt"
    /\ ~is_answer_complete
    /\ extracted_option = "unclear"
    /\ \E i \in 1..Len(conversation_history) :
          \E o \in Options : conversation_history[i] = AssistantTurn(AckMsg(o))

\* C6: when the classifier fails (or answers outside the intent set) the step
\* still completes: last_intent is answering, last_emotion neutral, and the
\* run goes on to extraction as for a genuine answering classification.
C6_ClassifierFailure ==
    [][(pc = "classify_intent" /\ cls_out'.raw \notin IntentLiteral) =>
          /\ last_intent' = "answering"
          /\ last_emotion' = "neutral"
          /\ pc' = "extract_qchat_answer"
          /\ pc' = Edge("classify_intent", route_by_intent("answering"))]_vars

C6_Witness ==
    /\ pc = "extract_qchat_answer"
    /\ cls_out.raw = FAIL
    /\ last_intent = "answering"
    /\ last_emotion = "neutral"

\* C7: a message supplied to a conversation that already has turns (whatever
\* the earlier turns were: redirect, clarification, ...) passes welcome and
\* await_user_input unchanged and reaches classification; classified
\* answering it reaches extraction, and an extracted option A..E ends the run
\* in Done with is_answer_complete and that option.
C7_AnswerAfterDetour ==
    [][/\ (pc = "welcome" /\ conversation_history # <<>>) =>
             (pc' = "await_user_input" /\ current_message' = current_message)
       /\ (pc = "await_user_input" /\ Strip(current_message) # "") =>
             (pc' = "classify_intent" /\ current_message' = current_message)
       /\ (pc = "classify_intent" /\ cls_out'.intent = "answering") =>
             pc' = "extract_qchat_answer"
       /\ (pc = "extract_qchat_answer" /\ ext_out'.option \in Options) =>
             (pc' = END /\ is_answer_complete' /\ extracted_option' = ext_out'.option)]_vars

C7_Witness ==
    /\ pc = END
    /\ is_answer_complete
    /\ extracted_option \in Options
    /\ Len(conversation_history) >= 3
    /\ conversation_history[Len(conversation_history)] = AssistantTurn(AckMsg(extracted_option))
    /\ conversation_history[Len(conversation_history) - 2] = AssistantTurn("node_fallback_redirect")

C8_Handlers ==
    {"handle_clarification", "handle_asking_question", "handle_greeting", "handle_off_topic"}

\* C8: the only successor of the four response handlers and of welcome is
\* await_user_input, the only successors of extraction are Done and
\* clarification, and a run is suspended only from await_user_input.
C8_FunnelToAwaitInput ==
    [][/\ pc \in C8_Handlers => pc' = "await_user_input"
       /\ pc = "welcome" => pc' = "await_user_input"
       /\ pc = "extract_qchat_answer" => pc' \in {END, "handle_clarification"}
       /\ (pc' = "interrupt" /\ pc # "interrupt") => pc = "await_user_input"]_vars

C8_Witness ==
    /\ pc = "interrupt"
    /\ last_intent = "off_topic"
    /\ calls = [cls |-> 1, ext |-> 0, gen |-> 1]
    /\ steps = 5

\* C9: the welcome step on a non-empty history calls no generator and changes
\* nothing; on an empty history it calls the generator once, leaves exactly
\* one assistant turn (the bot response) and an empty current_message; either
\* way it goes to await_user_input.  Reopening an existing chat through the
\* api never starts a welcome run: while a chat exists, a welcome run starts
\* only for another question.
C9_WelcomeOnce ==
    [][/\ pc = "welcome" =>
             /\ pc' = "await_user_input"
             /\ IF conversation_history # <<>>
                THEN UNCHANGED <<graphState, calls, gen_out>>
                ELSE /\ calls'.gen = calls.gen + 1
                     /\ conversation_history' = <<AssistantTurn(bot_response')>>
                     /\ bot_response' # NONE
                     /\ current_message' = ""
       /\ (chat_open /\ req = "none" /\ req' = "start") =>
             current_question_number' # current_question_number
       /\ (chat_open /\ req = "none" /\ response'.kind = "start") =>
             UNCHANGED <<graphState, messages, pc, calls>>]_vars

C9_Witness ==
    /\ pc = "await_user_input"
    /\ steps = 1
    /\ calls.gen = 0
    /\ Len(conversation_history) >= 2
    /\ current_message \in Msgs

C10_UserCount(h, c) == Cardinality({i \in 1..Len(h) : h[i] = UserTurn(c)})

\* C10: a message whose content equals a user turn among the last 3 history
\* entries adds no further user turn with that content to the conversation
\* history.
C10_RetryNotAppended ==
    [][\A c \in Msgs :
          IsDuplicate(conversation_history, c) =>
             C10_UserCount(conversation_history', c) <= C10_UserCount(conversation_history, c)]_vars

C11_ClarifyNodes == {"handle_clarification", "handle_asking_question"}

C11_AssistantIndexes(h) == {i \in 1..Len(h) : h[i].role = "assistant"}

\* the generated text equals the content of the assistant turn with the
\* greatest index
C11_Repeats(h, text) ==
    /\ C11_AssistantIndexes(h) # {}
    /\ \E i \in C11_AssistantIndexes(h) :
          /\ \A j \in C11_AssistantIndexes(h) : j <= i
          /\ h[i].content = text

\* C11: in the clarification / question-answering step the generator is called
\* exactly once, current_message is cleared, the generated text is the bot
\* response and the run goes to await_user_input; the history is unchanged when
\* the generated text is identical to the most recent assistant turn, and
\* otherwise grows by exactly one assistant turn carrying the generated text.
C11_LoopSuppression ==
    [][(pc \in C11_ClarifyNodes) =>
          /\ calls'.gen = calls.gen + 1
          /\ calls'.cls = calls.cls /\ calls'.ext = calls.ext
          /\ current_message' = ""
          /\ bot_response' = gen_out'
          /\ pc' = "await_user_input"
          /\ conversation_history' =
                (IF C11_Repeats(conversation_history, gen_out')
                 THEN conversation_history
                 ELSE Append(conversation_history, AssistantTurn(gen_out')))]_vars

C11_Witness ==
    /\ pc = "await_user_input"
    /\ calls = [cls |-> 1, ext |-> 0, gen |-> 1]
    /\ gen_out = "g1"
    /\ current_message = ""
    /\ conversation_history = <<AssistantTurn("g1"), UserTurn("m1")>>

C12_IsPrefix(a, b) == Len(a) <= Len(b) /\ SubSeq(b, 1, Len(a)) = a

\* C12: across every step of the state machine (every node step, and every
\* step of the script driver, which hands the previous result back to the
\* graph) the previous conversation history is a prefix of the new one: it
\* never shrinks and no existing entry is changed, removed or reordered; a
\* step adds at most one entry.
C12_HistoryAppendOnly ==
    [][(pc \in Nodes \/ mode = "script") =>
          /\ C12_IsPrefix(conversation_history, conversation_history')
          /\ Len(conversation_history') <= Len(conversation_history) + 1]_vars

C12_Witness ==
    /\ pc = "interrupt"
    /\ Len(conversation_history) = 5
    /\ conversation_history[2].role = "user"
    /\ conversation_history[4].role = "user"
    /\ conversation_history[5] = AssistantTurn("g1")

\* C13: when a message request completes, the persisted attempt count is one
\* greater than before the request if extraction ran in the turn and was
\* unclear (or failed), and unchanged if extraction did not run.
C13_AttemptCountIncrements ==
    [][(req = "message" /\ req' = "none") =>
          attempt_count' =
             (IF calls.ext > 0 /\ ext_out.option = "unclear"
              THEN attempt_count + 1
              ELSE attempt_count)]_vars

\* C14: a conversation in which extraction fails again and again eventually
\* ends with the outcome unanswered: extracted_option = "unanswered" in the
\* result of a run, surfaced by the api as a completed response.
C14_ExhaustionSurfaces ==
    ([]<>(pc = "handle_clarification" /\ extracted_option = "unclear"))
        => <>(extracted_option = "unanswered")

C15_Fallbacks ==
    {"chain_fallback_welcome", "chain_fallback_clarification", "chain_fallback_redirect"}

\* some leaf invoked in the run failed
C15_FailedLeaf ==
    cls_out.raw = FAIL \/ ext_out.raw = FAIL \/ gen_out \in C15_Fallbacks

\* C15: no error state is reachable, and a run in which a leaf failed
\* (classifier, extractor or a generator) ends suspended in await_user_input or
\* in Done with current_message cleared and a bot response set; when a
\* generator failed, its fallback message is the bot response and the last
\* entry of the history.
C15_NoLeafFailureAborts ==
    /\ pc # "error"
    /\ (Resting /\ C15_FailedLeaf) =>
          /\ current_message = ""
          /\ bot_response # NONE
          /\ gen_out \in C15_Fallbacks =>
                /\ bot_response = gen_out
                /\ conversation_history # <<>>
                /\ conversation_history[Len(conversation_history)] = AssistantTurn(gen_out)

C16_Empty(s) == s \in {"", BlankMsg}

\* C16: the await_user_input step goes to classify_intent only with a
\* non-empty current_message, which is then a user turn among the latest
\* history entries; with an empty (or all-whitespace) current_message it
\* suspends the run, changing nothing and invoking no leaf, and a suspended run
\* invokes no leaf until a driver starts the next run.  classify_intent is
\* never entered with an empty utterance.
C16_AwaitInputGuard ==
    [][/\ pc = "await_user_input" =>
             IF C16_Empty(current_message)
             THEN pc' = "interrupt" /\ UNCHANGED <<graphState, calls>>
             ELSE /\ pc' = "classify_intent"
                  /\ current_message' = current_message
                  /\ calls' = calls
                  /\ \E i \in 1..Len(conversation_history') :
                        /\ i > Len(conversation_history') - 3
                        /\ conversation_history'[i] = UserTurn(current_message)
       /\ pc' = "classify_intent" => ~C16_Empty(current_message')
       /\ pc = "interrupt" => (calls' = calls \/ (pc' \in {"welcome", "idle"} /\ calls' = NoCalls))]_vars

C16_Witness ==
    /\ pc = "interrupt"
    /\ req = "message"
    /\ current_message = BlankMsg
    /\ calls = NoCalls
    /\ conversation_history[Len(conversation_history)] = UserTurn(BlankMsg)

\* C17: whenever the clarification / question-answering handler runs, the
\* clarification generator is invoked with the utterance of the current turn
\* as user_input, whichever way the run came into the handler.
C17_ClarifyGetsUtterance ==
    [][(pc \in C11_ClarifyNodes) => (gen_in' = utterance /\ utterance # "")]_vars

\* the messages one request stores when it is handled alone
C18_Turn(t) ==
    <<UserTurn(workers[t].message)>> \o
       (IF workers[t].bot # "" THEN <<AssistantTurn(workers[t].bot)>> ELSE <<>>)

\* C18: two messages sent to one conversation are handled one at a time: once
\* both requests have returned, the stored conversation is the one from before
\* followed by the user message and response of one request and then those of
\* the other, nothing lost and nothing interleaved.
C18_SingleFlight ==
    (\A t \in Threads : workers[t].pc = "done") =>
        \E a, b \in Threads :
            /\ a # b
            /\ messages = ConcBase \o C18_Turn(a) \o C18_Turn(b)

\* the chat id under which the conversation of question q is stored
C19_ChatIdOf(q) == IF load_chat_state(q) THEN chat_id ELSE NoChat

\* C19: a step that starts or continues the conversation of one question
\* leaves the conversation of every other question as it was: its chat id, its
\* stored messages and its attempt count.
C19_ConversationsIndependent ==
    [][\A q \in QuestionNumbers :
          (current_question_number' \in QuestionNumbers \ {q}) =>
              /\ get_chat_messages(q)' = get_chat_messages(q)
              /\ C19_ChatIdOf(q)' = C19_ChatIdOf(q)]_vars

\* C20: the step that starts the conversation of a question stores a fresh
\* chat state under a new chat id and runs the graph on a fresh state: no
\* stored message, attempt count 0, empty history, no extracted option, no
\* completed answer, whatever the previous conversation left; when that
\* request returns, the welcome turn is all the conversation holds.
C20_FreshState ==
    [][/\ (req = "none" /\ req' = "start") =>
             /\ messages' = <<>>
             /\ attempt_count' = 0
             /\ chat_id' = issued' /\ issued' = issued + 1
             /\ conversation_history' = <<>>
             /\ current_message' = ""
             /\ extracted_option' = NONE
             /\ extraction_confidence' = NoConf
             /\ ~is_answer_complete'
             /\ pc' = "welcome"
       /\ (req = "start" /\ req' = "none") =>
             /\ messages' = <<AssistantTurn(bot_response)>>
             /\ conversation_history = messages'
             /\ attempt_count' = 0
             /\ extracted_option = NONE /\ ~is_answer_complete]_vars

C20_Witness ==
    /\ req = "start"
    /\ pc = "interrupt"
    /\ chat_id = 2
    /\ current_question_number = 10
    /\ messages = <<>>
    /\ conversation_history = <<AssistantTurn("g1")>>

\* C21: a chat turn that completes with an option A..E only returns the option:
\* no step of handling the message changes the session's answers, status,
\* current question or unanswered list (hence its score), the response carries
\* the option and no next question, and the answers change only in a
\* submit_answer step.
C21_ChatTurnOnlyReturnsOption ==
    [][/\ ((req = "message" \/ req' = "message") /\ extracted_option' \in Options \cup {NONE, "unclear"})
            => /\ UNCHANGED <<answers, status, current_question, unanswered_questions>>
               /\ calculate_total_score(answers') = calculate_total_score(answers)
       /\ (req = "message" /\ req' = "none" /\ is_answer_complete /\ extracted_option \in Options)
            => /\ response'.extracted_option = extracted_option
               /\ response'.next_question_number = NoQuestion
       /\ (answers' # answers) => (req = "none" /\ req' = "none" /\ response'.kind = "answer")
      ]_vars

\* a turn on question 1 returned option A while the session has no answer recorded
C21_Witness ==
    /\ response.kind = "message"
    /\ response.is_complete
    /\ response.extracted_option = "A"
    /\ current_question_number = 1
    /\ answers = <<>>
    /\ status = "created"

\* C22: whenever a run rests (suspended or ended) and its state is handed back
\* to the driver, next_question_number is current_question_number + 1 if
\* is_answer_complete is true and is absent otherwise.
C22_NextQuestionIffComplete ==
    Resting =>
       IF is_answer_complete
       THEN next_question_number = current_question_number + 1
       ELSE next_question_number = NoQuestion

\* C23: calculate_point(q, option) is true iff (q in 1..9 and option in C, D, E)
\* or (q = 10 and option in A, B, C), for every q and every option A..E.
C23_PointRule ==
    (call.fn = "calculate_point" /\ call.done) =>
        (call.returned <=>
            \/ (call.question_number \in 1..9 /\ call.selected_option \in {"C", "D", "E"})
            \/ (call.question_number = 10 /\ call.selected_option \in {"A", "B", "C"}))

\* calculate_point(10, "A") returned true
C23_Witness ==
    /\ call.fn = "calculate_point"
    /\ call.done
    /\ call.question_number = 10
    /\ call.selected_option = "A"
    /\ call.returned

\* the list rearranged by the permutation p of its indexes
C24_Permuted(list, p) == [i \in DOMAIN list |-> list[p[i]]]

\* the entries whose question has a scoring rule
C24_HasRule(answer) == answer.question_number \in 1..10

\* C24: the total score is the same for every permutation of the answer list,
\* and entries whose question_number has no scoring rule (outside 1..10) do not
\* count: removing all of them, or adding one, leaves the score unchanged.
C24_OrderAndForeignEntries ==
    (call.fn = "calculate_total_score" /\ call.done /\ Len(call.answers) <= MaxAnswers) =>
        /\ \A p \in Permutations(DOMAIN call.answers) :
              calculate_total_score(C24_Permuted(call.answers, p)) = call.returned
        /\ calculate_total_score(SelectSeq(call.answers, C24_HasRule)) = call.returned
        /\ \A e \in {x \in ScoreEntries : ~C24_HasRule(x)} :
              /\ calculate_total_score(Append(call.answers, e)) = call.returned
              /\ calculate_total_score(<<e>> \o call.answers) = call.returned

\* a scored list of three entries: one that scores, one without a rule, one
\* that does not score
C24_Witness ==
    /\ call.fn = "calculate_total_score"
    /\ call.done
    /\ call.answers = <<[question_number |-> 1, selected_option |-> "C"],
                        [question_number |-> 11, selected_option |-> "C"],
                        [question_number |-> 10, selected_option |-> "E"]>>
    /\ call.returned = 1

\* one answer per question 1..10
C25_Complete(list) ==
    /\ Len(list) = 10
    /\ \A q \in 1..10 : Cardinality({i \in DOMAIN list : list[i].question_number = q}) = 1

C25_AllTypical(list) ==
    \A i \in DOMAIN list :
        list[i].selected_option = (IF list[i].question_number = 10 THEN "E" ELSE "A")

C25_AllAtypical(list) ==
    \A i \in DOMAIN list :
        IF list[i].question_number = 10 THEN list[i].selected_option = "A"
        ELSE list[i].selected_option \in {"C", "D", "E"}

\* C25: for a complete answer set (one answer per question) the score of
\* all-typical answers (1..9 = A, 10 = E) is 0 and the score of all-atypical
\* answers (1..9 each in C, D, E; 10 = A) is 10.
C25_Extremes ==
    (call.fn = "calculate_total_score" /\ call.done /\ C25_Complete(call.answers)) =>
        /\ C25_AllTypical(call.answers) => call.returned = 0
        /\ C25_AllAtypical(call.answers) => call.returned = 10

\* an all-atypical complete set that mixes C, D and E was scored 10
C25_Witness ==
    /\ call.fn = "calculate_total_score"
    /\ call.done
    /\ C25_Complete(call.answers)
    /\ C25_AllAtypical(call.answers)
    /\ {call.answers[i].selected_option : i \in 1..9} = {"C", "D", "E"}
    /\ call.returned = 10

\* C26: for every score in 0..10, assess_risk(score).recommend_referral is true
\* iff score > 3, and risk_level is "high" exactly when recommend_referral is
\* true and "low" otherwise.
C26_ReferralRule ==
    (call.fn = "assess_risk" /\ call.done) =>
        /\ call.returned.recommend_referral <=> (call.total_score > 3)
        /\ call.returned.risk_level =
               (IF call.returned.recommend_referral THEN "high" ELSE "low")
        /\ call.returned.risk_level \in {"high", "low"}

\* assess_risk(4) recommended referral with risk level high
C26_Witness ==
    /\ call.fn = "assess_risk"
    /\ call.done
    /\ call.total_score = 4
    /\ call.returned.recommend_referral
    /\ call.returned.risk_level = "high"

\* the questions whose recorded answer scores a point
C27_ScoringQuestions ==
    {q \in 1..10 : \E i \in DOMAIN answers :
                      answers[i].question_number = q /\ answers[i].scored_point}

\* C27: after any sequence of session operations (submit_answer in any order,
\* re-submissions included, and chat messages) the total score of the session
\* is the number of recorded answers that score a point and lies in 0..10; the
\* score answered by submit_answer is that number.
C27_ScoreCountsScoringAnswers ==
    /\ calculate_total_score(answers) = Cardinality(C27_ScoringQuestions)
    /\ calculate_total_score(answers) \in 0..10
    /\ \A i, j \in DOMAIN answers :
          /\ answers[i].question_number \in 1..10
          /\ (i # j) => answers[i].question_number # answers[j].question_number
    /\ \A i \in DOMAIN answers :
          answers[i].scored_point <=>
             IF answers[i].question_number = 10
             THEN answers[i].selected_option \in {"A", "B", "C"}
             ELSE answers[i].selected_option \in {"C", "D", "E"}
    /\ response.kind = "answer" => response.current_score = Cardinality(C27_ScoringQuestions)

\* question 1 was answered, then question 10, then question 1 again (the
\* session's current question is 2 again), with a chat message in between;
\* one of the two answers scores
C27_Witness ==
    /\ Len(answers) = 2
    /\ answers[1].question_number = 1
    /\ answers[2].question_number = 10
    /\ current_question = 2
    /\ Len(messages) >= 2
    /\ response.kind = "answer"
    /\ response.current_score = 1

\* the nodes other than the extraction step
C28_OtherNodes == Nodes \ {"extract_qchat_answer"}

\* C28: extracted_option, extraction_confidence and extraction_reasoning are
\* set only by the extraction step: a step of welcome, await_user_input,
\* classify_intent, handle_clarification, handle_asking_question,
\* handle_greeting or handle_off_topic leaves these fields and
\* is_answer_complete unchanged.
C28_OnlyExtractionSets ==
    [][(pc \in C28_OtherNodes) =>
          /\ extracted_option' = extracted_option
          /\ extraction_confidence' = extraction_confidence
          /\ extraction_reasoning' = extraction_reasoning
          /\ is_answer_complete' = is_answer_complete]_vars

\* a later run answered a clarification request and is suspended; the option,
\* confidence and reasoning of the earlier extraction are still in the state
C28_Witness ==
    /\ pc = "interrupt"
    /\ last_intent = "clarification"
    /\ calls.gen = 1
    /\ extracted_option = "A"
    /\ extraction_confidence = 90
    /\ extraction_reasoning = "r1"
    /\ is_answer_complete

\* the questions of a session that were answered or recorded as unanswered
C29_Attempted(session) ==
    AnsweredQuestions(session.answers) \cup Range(session.unanswered_questions)

C30_StepCap == 15

\* C30: every run that is given one user message terminates: it comes to rest
\* (suspended in await_user_input, or ended) after at most one classifier
\* call, one extractor call and one generator call, in fewer node steps than
\* the step cap of 15.
C30_TurnTerminates ==
    /\ []((utterance # "") =>
            /\ calls.cls <= 1
            /\ calls.ext <= 1
            /\ calls.gen <= 1
            /\ steps < C30_StepCap
            /\ pc \in Nodes \cup {"interrupt", END})
    /\ []((utterance # "" /\ pc \in Nodes) => <>(pc \in {"interrupt", END}))

\* the longest turn: classified answering, extraction unclear, clarification
\* generated, suspended again after six node steps with one call of each kind
C30_Witness ==
    /\ utterance # ""
    /\ pc = "interrupt"
    /\ steps = 6
    /\ calls = [cls |-> 1, ext |-> 1, gen |-> 1]

\* C31 (as claimed): in every reachable state is_answer_complete implies that
\* extracted_option is one of A..E and last_intent is "answering"; and the
\* extractor runs only in a turn whose last_intent is "answering".
C31_CompleteMeansAnswering ==
    /\ is_answer_complete => (extracted_option \in Options /\ last_intent = "answering")
    /\ (pc = "extract_qchat_answer" \/ calls.ext > 0) => last_intent = "answering"

\* C31 (amended): is_answer_complete implies an extracted_option in A..E; the
\* extractor runs only in a turn whose last_intent is "answering", so a run
\* that ends in Done has last_intent "answering"; is_answer_complete together
\* with another last_intent occurs only in the script driver, in a later turn
\* in which the extractor did not run and the flag is the one carried over.
C31_CompleteFromAnsweringTurn ==
    /\ is_answer_complete => extracted_option \in Options
    /\ (pc = "extract_qchat_answer" \/ calls.ext > 0) => last_intent = "answering"
    /\ pc = END => (is_answer_complete /\ last_intent = "answering")
    /\ (is_answer_complete /\ last_intent # "answering") =>
          (mode = "script" /\ calls.ext = 0 /\ pc # END)

\* script driver: a later turn was classified as a clarification request while
\* the state still holds the completed answer of an earlier turn
C31_Witness ==
    /\ mode = "script"
    /\ is_answer_complete
    /\ extracted_option \in Options
    /\ last_intent = "clarification"
    /\ calls.cls = 1
    /\ calls.ext = 0

\* C32: whenever the run is suspended in await_user_input or has ended, the
\* conversation history is non-empty and its last entry is an assistant turn.
C32_RestsOnAssistantTurn ==
    Resting =>
       /\ conversation_history # <<>>
       /\ conversation_history[Len(conversation_history)].role = "assistant"

\* C33: no assistant turn of the conversation history has empty content and
\* no handler leaves an empty bot response: an empty generator text is
\* replaced by the fallback message in every handler.
C33_NoEmptyReply ==
    /\ \A i \in 1..Len(conversation_history) :
          conversation_history[i].role = "assistant"
             => conversation_history[i].content # ""
    /\ (calls.gen > 0 /\ current_message = "") => bot_response # ""

\* C34: when a send_chat_message request returns, the chat messages stored in
\* the session for the active question are, as a sequence of (role, content)
\* entries, the conversation history with which the run ended.
C34_StoredEqualsHistory ==
    [][(req = "message" /\ req' = "none") => messages' = conversation_history']_vars

\* C35: after every submit_answer the answers list holds at most one entry per
\* question number, and a submission for a question that already has an entry
\* replaces that entry at its position: the list keeps its length, every
\* position keeps its question and at most one entry changes; the list grows
\* (by one entry, at the end) only for a question that had no entry.
C35_ReplacesInPlace ==
    [][(response'.kind = "answer" /\ req = "none" /\ req' = "none") =>
          /\ \A i, j \in DOMAIN answers' :
                answers'[i].question_number = answers'[j].question_number => i = j
          /\ Len(answers') \in {Len(answers), Len(answers) + 1}
          /\ \A i \in DOMAIN answers :
                answers'[i].question_number = answers[i].question_number
          /\ Cardinality({i \in DOMAIN answers : answers'[i] # answers[i]}) <= 1
          /\ Len(answers') = Len(answers) + 1 =>
                /\ \A i \in DOMAIN answers : answers'[i] = answers[i]
                /\ answers'[Len(answers')].question_number \notin AnsweredQuestions(answers)
      ]_vars

\* question 1 was answered A, question 2 was answered, then question 1 was
\* submitted again with E: its entry changed where it stood
C35_Witness ==
    /\ response.kind = "answer"
    /\ current_question = 2
    /\ Len(answers) >= 2
    /\ answers[1].question_number = 1
    /\ answers[1].selected_option = "E"
    /\ answers[2].question_number = 2

\* C36: whenever submit_answer has answered with is_complete = true, the stored
\* session status is completed and completed_at is set (so that get_report
\* succeeds), in whatever order the ten questions were answered.
C36_CompleteMeansCompleted ==
    (response.kind = "answer" /\ response.is_complete)
        => (status = "completed" /\ completed_at # NONE)

\* C37: once the session status is completed, no submit_answer is accepted:
\* every request is answered with an error (or with the report) and leaves
\* answers, current_question, status, unanswered_questions and completed_at as
\* they were; and every submit_answer answered with an error, on a completed
\* session or for an invalid question number or option, changes none of them.
C37_CompletedIsAbsorbing ==
    [][/\ status = "completed" =>
             /\ UNCHANGED sessionVars
             /\ response'.kind \in {"error", "report"}
       /\ response'.kind = "error" => UNCHANGED sessionVars
      ]_vars

\* a submit_answer on the completed session was answered 400
C37_Witness ==
    /\ status = "completed"
    /\ completed_at = UtcNow
    /\ Len(answers) = 10
    /\ response.kind = "error"
    /\ response.status = 400

====
